---- MODULE Spec2Model ----
(***************************************************************************)
(* Model of VRPSolver (src/solver/task2_vrp_discharge_solver.py): the      *)
(* genetic-algorithm route optimiser.                                      *)
(*                                                                         *)
(* Numbers.  The program computes with floats; the model uses integers:    *)
(*   distances and times in 1/100 of a unit (DistScale),                   *)
(*   costs and fitness in 1/1000 of a unit (CostScale),                    *)
(*   consumption rates in 1/1000 per distance unit (RateScale),            *)
(*   battery levels in 1/(DistScale*RateScale) of an energy unit.          *)
(* A Python set of small ints is iterated in ascending order (CPython      *)
(* hashes an int to itself), which is the order the model uses.            *)
(***************************************************************************)
EXTENDS Integers, Sequences, FiniteSets, TLC

VARIABLES customers, vehicles, enable_discharge, distance_matrix,
          max_iterations,
          best_solution, best_cost,
          pc, population, fitness_scores, new_population, elite,
          iteration, no_improvement_count, result,
          calls, returned_by, evaluated_min, best_history,
          eval_log, applied

vars == <<customers, vehicles, enable_discharge, distance_matrix,
          max_iterations,
          best_solution, best_cost,
          pc, population, fitness_scores, new_population, elite,
          iteration, no_improvement_count, result,
          calls, returned_by, evaluated_min, best_history,
          eval_log, applied>>

----------------------------------------------------------------------------
(* Bounds of the model (the program's values are 100, 20, 2000 and 300). *)
PopulationSize == 3
EliteSize == 2
MaxIterations == 3
NoImprovementLimit == 2
(* Number of solve calls made on one solver object. *)
(* Evaluations recorded in eval_log, and routes of a crossover parent. *)
MaxEvals == 3
MaxRoutes == 2
MaxCalls == 2

(* Scales of the integer arithmetic. *)
DistScale == 100
CostScale == 1000
RateScale == 1000

(* float('inf') *)
Inf == 2000000000
(* None, where a list of routes is expected: no route holds customer -1 *)
None == << <<-1>> >>
(* None, where a result is expected *)
NoResult == [none |-> TRUE]

----------------------------------------------------------------------------
(* Sequence helpers. *)
Range(s) == {s[i] : i \in DOMAIN s}

RECURSIVE SumSeq(_)
SumSeq(s) == IF s = <<>> THEN 0 ELSE Head(s) + SumSeq(Tail(s))

RECURSIVE Flatten(_)
Flatten(ss) == IF ss = <<>> THEN <<>> ELSE Head(ss) \o Flatten(Tail(ss))

Max2(a, b) == IF a >= b THEN a ELSE b
Min2(a, b) == IF a <= b THEN a ELSE b

(* list(S) for a set S of small ints: ascending. *)
RECURSIVE SetToList(_)
SetToList(S) ==
    IF S = {} THEN <<>>
    ELSE LET m == CHOOSE x \in S : \A y \in S : x <= y
         IN <<m>> \o SetToList(S \ {m})

(* s[:pos] + [x] + s[pos:]   (pos is 0-based) *)
InsertAt(s, pos, x) == SubSeq(s, 1, pos) \o <<x>> \o SubSeq(s, pos + 1, Len(s))
(* s without its element at 0-based index pos *)
RemoveAt(s, pos) == SubSeq(s, 1, pos) \o SubSeq(s, pos + 2, Len(s))

----------------------------------------------------------------------------
(* Customer / Vehicle constructors. *)
Customer(id, x, y, demand, ready_time, due_time, service_time) ==
    [id |-> id, x |-> x, y |-> y, demand |-> demand,
     ready_time |-> ready_time, due_time |-> due_time,
     service_time |-> service_time]

(* consumption_rate is given in 1/RateScale; current_location = None is
   written -1. *)
Vehicle(capacity, battery_capacity, consumption_rate) ==
    [capacity |-> capacity, battery_capacity |-> battery_capacity,
     consumption_rate |-> consumption_rate,
     current_load |-> 0, current_battery |-> battery_capacity,
     route |-> <<>>, current_time |-> 0, current_location |-> -1]

(* floor(sqrt(n)) *)
RECURSIVE ISqrtIter(_, _, _)
ISqrtIter(n, lo, hi) ==
    IF lo >= hi THEN lo
    ELSE LET mid == (lo + hi + 1) \div 2
         IN IF mid * mid <= n THEN ISqrtIter(n, mid, hi)
            ELSE ISqrtIter(n, lo, mid - 1)

(* Customer.distance_to, in 1/DistScale *)
distance_to(a, b) ==
    ISqrtIter(((a.x - b.x) * (a.x - b.x) + (a.y - b.y) * (a.y - b.y))
                 * DistScale * DistScale, 0, 40000)

(* VRPSolver._calculate_distance_matrix: index 0 is the depot. *)
CalculateDistanceMatrix(depot, custs) ==
    LET all_nodes == <<depot>> \o custs
        n == Len(all_nodes)
    IN [i \in 0..(n - 1) |->
          [j \in 0..(n - 1) |->
             IF i # j THEN distance_to(all_nodes[i + 1], all_nodes[j + 1])
             ELSE 0]]

----------------------------------------------------------------------------
(* peak_hours default of VRPSolver.__init__, as times in 1/DistScale *)
PeakStart == 17
PeakEnd == 20
peak_hours == <<PeakStart * DistScale, PeakEnd * DistScale>>

(* Penalties of the fitness evaluation, and the route length limit of the
   repair pass. *)
InfeasiblePenalty == 1000
UnassignedPenalty == 2000
RouteLengthLimit == 10
FirstTen == 11

NumCustomers == Len(customers)
AllCustomers == 1..NumCustomers

(* The loop body of VRPSolver._is_feasible_route, from stop k of the route
   on.  Battery levels are in 1/(DistScale*RateScale). *)
RECURSIVE FeasibleFrom(_, _, _, _, _, _, _)
FeasibleFrom(route, vehicle, k, current_load, current_battery, current_time, current_pos) ==
    IF k > Len(route)
    THEN current_battery >=
            distance_matrix[current_pos][0] * vehicle.consumption_rate
    ELSE LET customer_idx == route[k]
             customer == customers[customer_idx]
             distance == distance_matrix[current_pos][customer_idx]
             battery_needed == distance * vehicle.consumption_rate
             arrival == current_time + distance
             start == IF arrival < customer.ready_time * DistScale
                      THEN customer.ready_time * DistScale ELSE arrival
             load == current_load + customer.demand
         IN IF current_battery < battery_needed THEN FALSE
            ELSE IF arrival > customer.due_time * DistScale THEN FALSE
            ELSE IF load > vehicle.capacity THEN FALSE
            ELSE FeasibleFrom(route, vehicle, k + 1, load,
                              current_battery - battery_needed,
                              start + customer.service_time * DistScale,
                              customer_idx)

IsFeasibleRouteNoBattery(route, vehicle) ==
    IF route = <<>> THEN TRUE
    ELSE FeasibleFrom(route, vehicle, 1, 0, Inf, 0, 0)

(* VRPSolver._is_feasible_route *)
IsFeasibleRoute(route, vehicle) ==
    IF route = <<>> THEN TRUE
    ELSE FeasibleFrom(route, vehicle, 1, 0,
                      vehicle.battery_capacity * DistScale * RateScale, 0, 0)

(* depot -> customers in order -> depot, in 1/DistScale *)
RECURSIVE RouteDistanceFrom(_, _, _)
RouteDistanceFrom(route, k, current_pos) ==
    IF k > Len(route) THEN distance_matrix[current_pos][0]
    ELSE distance_matrix[current_pos][route[k]]
            + RouteDistanceFrom(route, k + 1, route[k])

RouteDistance(route) == RouteDistanceFrom(route, 1, 0)

(* VRPSolver._calculate_discharge_benefit, in 1/CostScale: 0.1 per time
   unit of overlap is 1/CostScale per 1/DistScale of overlap. *)
RECURSIVE DischargeBenefitFrom(_, _, _, _)
DischargeBenefitFrom(route, k, current_time, current_pos) ==
    IF k > Len(route) THEN 0
    ELSE LET customer_idx == route[k]
             customer == customers[customer_idx]
             arrival == current_time + distance_matrix[current_pos][customer_idx]
             service_start == Max2(arrival, customer.ready_time * DistScale)
             service_end == service_start + customer.service_time * DistScale
             overlap_start == Max2(service_start, peak_hours[1])
             overlap_end == Min2(service_end, peak_hours[2])
             gain == IF overlap_start < overlap_end
                     THEN ((overlap_end - overlap_start) * CostScale)
                              \div (DistScale * 10)
                     ELSE 0
         IN gain + DischargeBenefitFrom(route, k + 1, service_end, customer_idx)

CalculateDischargeBenefit(route) == DischargeBenefitFrom(route, 1, 0, 0)

CalculateRouteCostDistanceOnly(route, vehicle) ==
    IF route = <<>> THEN 0
    ELSE RouteDistance(route) * (CostScale \div DistScale)

(* VRPSolver._calculate_route_cost, in 1/CostScale *)
CalculateRouteCost(route, vehicle) ==
    IF route = <<>> THEN 0
    ELSE RouteDistance(route) * (CostScale \div DistScale)
            - (IF enable_discharge THEN CalculateDischargeBenefit(route) ELSE 0)

VehicleAfterEvaluationWriteBack(vehicle, route) ==
    [vehicle EXCEPT !.route = route,
                    !.current_load =
                        SumSeq([k \in DOMAIN route |-> customers[route[k]].demand])]

(* The vehicle after _is_feasible_route and _calculate_route_cost have run
   on it: lines 72-75 and 120-121 keep load, battery, time and position in
   locals and assign no attribute of the vehicle. *)
VehicleAfterEvaluation(vehicle, route) == vehicle

----------------------------------------------------------------------------
(* VRPSolver._generate_initial_solution *)

(* Mutant: the feasible customer of lowest id, near or far. *)
NearestFeasibleLowestId(route, unvisited, current_pos, vehicle) ==
    LET cands == {c \in unvisited : IsFeasibleRoute(Append(route, c), vehicle)}
    IN IF cands = {} THEN 0
       ELSE CHOOSE c \in cands : \A d \in cands : c <= d

(* Lines 180-189: the nearest customer of unvisited whose appended route is
   feasible; 0 stands for best_customer = None.  The strict comparison keeps
   the first customer of the iteration order among equally near ones. *)
NearestFeasible(route, unvisited, current_pos, vehicle) ==
    LET cands == {c \in unvisited : IsFeasibleRoute(Append(route, c), vehicle)}
    IN IF cands = {} THEN 0
       ELSE CHOOSE c \in cands :
              \A d \in cands :
                 \/ distance_matrix[current_pos][c] < distance_matrix[current_pos][d]
                 \/ /\ distance_matrix[current_pos][c] = distance_matrix[current_pos][d]
                    /\ c <= d

(* Lines 178-196: the while loop extending one vehicle's route. *)
RECURSIVE GreedyRoute(_, _, _, _)
GreedyRoute(route, unvisited, current_pos, vehicle) ==
    IF unvisited = {} THEN [route |-> route, unvisited |-> unvisited]
    ELSE LET best_customer == NearestFeasible(route, unvisited, current_pos, vehicle)
         IN IF best_customer = 0
            THEN [route |-> route, unvisited |-> unvisited]
            ELSE GreedyRoute(Append(route, best_customer),
                             unvisited \ {best_customer}, best_customer, vehicle)

(* Lines 171-199: the loop over the vehicles; a vehicle whose route stays
   empty contributes no route. *)
RECURSIVE GreedyPhase(_, _, _)
GreedyPhase(v, unvisited, routes) ==
    IF v > Len(vehicles) \/ unvisited = {}
    THEN [routes |-> routes, unvisited |-> unvisited]
    ELSE LET g == GreedyRoute(<<>>, unvisited, 0, vehicles[v])
         IN GreedyPhase(v + 1, g.unvisited,
                        IF g.route # <<>> THEN Append(routes, g.route) ELSE routes)

(* Lines 210-220: the best insertion position (0-based) of customer_idx in
   route for vehicle, or -1 when no position is feasible. *)
BestInsertion(route, customer_idx, vehicle) ==
    LET feas == {pos \in 0..Len(route) :
                   IsFeasibleRoute(InsertAt(route, pos, customer_idx), vehicle)}
        inc(pos) == CalculateRouteCost(InsertAt(route, pos, customer_idx), vehicle)
                       - CalculateRouteCost(route, vehicle)
    IN IF feas = {} THEN -1
       ELSE CHOOSE pos \in feas :
              \A q \in feas : inc(pos) < inc(q) \/ (inc(pos) = inc(q) /\ pos <= q)

(* Lines 207-225: the first route (by index) that is shorter than the limit
   and admits a feasible insertion takes the customer. *)
RECURSIVE RepairInsert(_, _, _)
RepairInsert(routes, i, customer_idx) ==
    IF i > Len(routes) THEN [routes |-> routes, placed |-> FALSE]
    ELSE LET best_pos == IF Len(routes[i]) < RouteLengthLimit
                         THEN BestInsertion(routes[i], customer_idx, vehicles[i])
                         ELSE -1
         IN IF best_pos >= 0
            THEN [routes |-> [routes EXCEPT ![i] = InsertAt(routes[i], best_pos, customer_idx)],
                  placed |-> TRUE]
            ELSE RepairInsert(routes, i + 1, customer_idx)

(* Lines 206-225: the loop over list(unvisited). *)
RECURSIVE RepairPass(_, _, _)
RepairPass(todo, unvisited, routes) ==
    IF todo = <<>> THEN [routes |-> routes, unvisited |-> unvisited]
    ELSE LET r == RepairInsert(routes, 1, Head(todo))
         IN RepairPass(Tail(todo),
                       IF r.placed THEN unvisited \ {Head(todo)} ELSE unvisited,
                       r.routes)

(* Lines 228-234: every customer still unvisited gets a route of its own;
   both branches of the test on the vehicle count append a route. *)
RECURSIVE NewRoutes(_, _)
NewRoutes(unvisited, routes) ==
    IF unvisited # {} /\ Len(routes) < NumCustomers
    THEN LET customer_idx == Head(SetToList(unvisited))
         IN NewRoutes(unvisited \ {customer_idx}, Append(routes, <<customer_idx>>))
    ELSE routes

GenerateInitialSolution ==
    LET g == GreedyPhase(1, AllCustomers, <<>>)
    IN IF g.unvisited = {} THEN g.routes
       ELSE LET r == RepairPass(SetToList(g.unvisited), g.unvisited, g.routes)
            IN NewRoutes(r.unvisited, r.routes)

----------------------------------------------------------------------------
(* VRPSolver._crossover_solutions *)

(* Mutant: crossover that does not strip the customers already used. *)
WithoutStripping(route, used) == route

Without(route, used) == SelectSeq(route, LAMBDA c : c \notin used)

(* Lines 296-301: the routes of the first half of parent1. *)
RECURSIVE TakeFromParent1(_, _, _, _)
TakeFromParent1(parent1, i, child_routes, used_customers) ==
    IF i > Len(parent1)
    THEN [child_routes |-> child_routes, used_customers |-> used_customers]
    ELSE LET new_route == Without(parent1[i], used_customers)
         IN IF (i - 1) < Len(parent1) \div 2 /\ parent1[i] # <<>> /\ new_route # <<>>
            THEN TakeFromParent1(parent1, i + 1, Append(child_routes, new_route),
                                 used_customers \cup Range(new_route))
            ELSE TakeFromParent1(parent1, i + 1, child_routes, used_customers)

(* Lines 304-308: what is left of the routes of parent2. *)
RECURSIVE FillFromParent2(_, _, _, _)
FillFromParent2(parent2, i, child_routes, used_customers) ==
    IF i > Len(parent2)
    THEN [child_routes |-> child_routes, used_customers |-> used_customers]
    ELSE LET remaining == Without(parent2[i], used_customers)
         IN IF remaining # <<>>
            THEN FillFromParent2(parent2, i + 1, Append(child_routes, remaining),
                                 used_customers \cup Range(remaining))
            ELSE FillFromParent2(parent2, i + 1, child_routes, used_customers)

CrossoverSolutionsNoCompletion(parent1, parent2) ==
    IF Flatten(parent1) = <<>> THEN parent2
    ELSE IF Flatten(parent2) = <<>> THEN parent1
    ELSE LET a == TakeFromParent1(parent1, 1, <<>>, {})
         IN FillFromParent2(parent2, 1, a.child_routes, a.used_customers).child_routes

(* VRPSolver._crossover_solutions *)
CrossoverSolutions(parent1, parent2) ==
    IF Flatten(parent1) = <<>> THEN parent2
    ELSE IF Flatten(parent2) = <<>> THEN parent1
    ELSE LET a == TakeFromParent1(parent1, 1, <<>>, {})
             b == FillFromParent2(parent2, 1, a.child_routes, a.used_customers)
             missing == AllCustomers \ b.used_customers
         IN IF missing = {} THEN b.child_routes
            ELSE IF b.child_routes # <<>>
            THEN [b.child_routes EXCEPT ![1] = @ \o SetToList(missing)]
            ELSE <<SetToList(missing)>>

----------------------------------------------------------------------------
(* VRPSolver._mutate_solution.  Each operator is the set of outcomes of the
   random choices; Raise is the IndexError of random.choice on an empty
   list. *)
Raise == [raised |-> TRUE, routes |-> <<>>]
Ok(routes) == [raised |-> FALSE, routes |-> routes]

(* route with the elements at 1-based positions i and j exchanged *)
SwapAt(route, i, j) == [route EXCEPT ![i] = route[j], ![j] = route[i]]
(* route with the 1-based positions i..j reversed *)
ReverseSegmentFromStart(route, i, j) ==
    [k \in DOMAIN route |-> IF k <= j THEN route[j - k + 1] ELSE route[k]]

ReverseSegment(route, i, j) ==
    [k \in DOMAIN route |-> IF i <= k /\ k <= j THEN route[i + j - k] ELSE route[k]]

(* Lines 248-254 *)
MutateSwap(mutated) ==
    LET idx == {r \in DOMAIN mutated : Len(mutated[r]) > 1}
    IN IF idx = {} THEN {Raise}
       ELSE {Ok([mutated EXCEPT ![r] = SwapAt(mutated[r], i, j)]) :
               <<r, i, j>> \in {t \in idx \X (1..NumCustomers) \X (1..NumCustomers) :
                                  /\ t[2] \in DOMAIN mutated[t[1]]
                                  /\ t[3] \in DOMAIN mutated[t[1]]
                                  /\ t[2] # t[3]}}

(* Mutant: the popped customer is not inserted. *)
RelocateOneDrop(mutated, f, t, k, p) ==
    [mutated EXCEPT ![f] = RemoveAt(mutated[f], k)]

(* Lines 256-268: pop at 0-based k of the source, insert at 0-based p of
   the target as it is after the pop. *)
RelocateOne(mutated, f, t, k, p) ==
    LET customer == mutated[f][k + 1]
        popped == [mutated EXCEPT ![f] = RemoveAt(mutated[f], k)]
    IN [popped EXCEPT ![t] = InsertAt(popped[t], p, customer)]

MutateRelocate(mutated) ==
    IF Len(mutated) > 1
    THEN LET from == {r \in DOMAIN mutated : Len(mutated[r]) > 0}
         IN {Ok(RelocateOne(mutated, q[1], q[2], q[3], q[4])) :
               q \in {u \in from \X (DOMAIN mutated) \X (0..NumCustomers) \X (0..NumCustomers) :
                        /\ u[3] <= Len(mutated[u[1]]) - 1
                        /\ u[4] <= Len(mutated[u[2]]) - (IF u[1] = u[2] THEN 1 ELSE 0)}}
    ELSE {Ok(mutated)}

(* Lines 270-276: i < j drawn from range(1, len(route)), 0-based. *)
MutateTwoOpt(mutated) ==
    LET idx == {r \in DOMAIN mutated : Len(mutated[r]) > 3}
    IN IF idx = {} THEN {Raise}
       ELSE {Ok([mutated EXCEPT ![t[1]] = ReverseSegment(mutated[t[1]], t[2] + 1, t[3] + 1)]) :
               t \in {u \in idx \X (1..NumCustomers) \X (1..NumCustomers) :
                        /\ u[2] < u[3]
                        /\ u[3] <= Len(mutated[u[1]]) - 1}}

MutateSolution(routes) ==
    IF routes = <<>> \/ \A r \in DOMAIN routes : routes[r] = <<>>
    THEN {Ok(routes)}
    ELSE MutateSwap(routes) \cup MutateRelocate(routes) \cup MutateTwoOpt(routes)

(* Line 246: the mutation types, and the outcomes of one of them. *)
MutationTypes == {"swap", "relocate", "two_opt"}

MutateAs(mutated, mutation_type) ==
    CASE mutation_type = "swap" -> MutateSwap(mutated)
      [] mutation_type = "relocate" -> MutateRelocate(mutated)
      [] mutation_type = "two_opt" -> MutateTwoOpt(mutated)

----------------------------------------------------------------------------
(* Route lists as objects.  A Python assignment is a list of references to
   route lists; heap is the sequence of the route lists that exist, a
   reference is an index into it, and an assignment object is a sequence of
   references.  An operation done in place on a list changes heap at its
   reference, for every assignment that holds the reference. *)

Deref(heap, refs) == [i \in DOMAIN refs |-> heap[refs[i]]]

(* A new list object holding route. *)
NewList(heap, route) == [heap |-> Append(heap, route), ref |-> Len(heap) + 1]

(* New list objects for the routes of an assignment. *)
StoreAssignment(heap, routes) ==
    [heap |-> heap \o routes, refs |-> [i \in DOMAIN routes |-> Len(heap) + i]]

(* Mutant: the assignment itself instead of a copy. *)
DeepCopyShared(heap, refs) == [heap |-> heap, refs |-> refs]

(* copy.deepcopy (line 243): new list objects with the same stops. *)
DeepCopy(heap, refs) == StoreAssignment(heap, Deref(heap, refs))

(* VRPSolver._mutate_solution of one mutation type on the assignment object
   refs: lines 240-241 return the argument itself, line 243 copies it, and
   the branches change the lists of the copy in place (lines 254, 266-268,
   276), which keeps their number.  raised is the IndexError of
   random.choice, before any list is changed. *)
MutateInPlace(heap, refs, mutation_type) ==
    LET routes == Deref(heap, refs)
    IN IF routes = <<>> \/ \A r \in DOMAIN routes : routes[r] = <<>>
       THEN {[raised |-> FALSE, heap |-> heap, refs |-> refs]}
       ELSE LET mutated == DeepCopy(heap, refs)
            IN {[raised |-> m.raised,
                 heap |-> IF m.raised THEN mutated.heap
                          ELSE [a \in DOMAIN mutated.heap |->
                                  IF \E i \in DOMAIN mutated.refs : mutated.refs[i] = a
                                  THEN m.routes[CHOOSE i \in DOMAIN mutated.refs :
                                                   mutated.refs[i] = a]
                                  ELSE mutated.heap[a]],
                 refs |-> mutated.refs] :
                  m \in MutateAs(Deref(mutated.heap, mutated.refs), mutation_type)}

(* Lines 296-301 on objects: new_route is a new list (a comprehension). *)
RECURSIVE TakeInPlace(_, _, _, _, _)
TakeInPlace(heap, parent1, i, child_routes, used_customers) ==
    IF i > Len(parent1)
    THEN [heap |-> heap, child_routes |-> child_routes,
          used_customers |-> used_customers]
    ELSE LET route == heap[parent1[i]]
             new_route == Without(route, used_customers)
             n == NewList(heap, new_route)
         IN IF (i - 1) < Len(parent1) \div 2 /\ route # <<>> /\ new_route # <<>>
            THEN TakeInPlace(n.heap, parent1, i + 1, Append(child_routes, n.ref),
                             used_customers \cup Range(new_route))
            ELSE TakeInPlace(heap, parent1, i + 1, child_routes, used_customers)

(* Lines 304-308 on objects: remaining is a new list. *)
RECURSIVE FillInPlace(_, _, _, _, _)
FillInPlace(heap, parent2, i, child_routes, used_customers) ==
    IF i > Len(parent2)
    THEN [heap |-> heap, child_routes |-> child_routes,
          used_customers |-> used_customers]
    ELSE LET remaining == Without(heap[parent2[i]], used_customers)
             n == NewList(heap, remaining)
         IN IF remaining # <<>>
            THEN FillInPlace(n.heap, parent2, i + 1, Append(child_routes, n.ref),
                             used_customers \cup Range(remaining))
            ELSE FillInPlace(heap, parent2, i + 1, child_routes, used_customers)

(* VRPSolver._crossover_solutions on objects: lines 287 and 289 return a
   parent itself, line 315 extends the first list of the child in place. *)
CrossoverInPlace(heap, parent1, parent2) ==
    IF Flatten(Deref(heap, parent1)) = <<>> THEN [heap |-> heap, refs |-> parent2]
    ELSE IF Flatten(Deref(heap, parent2)) = <<>> THEN [heap |-> heap, refs |-> parent1]
    ELSE LET a == TakeInPlace(heap, parent1, 1, <<>>, {})
             b == FillInPlace(a.heap, parent2, 1, a.child_routes, a.used_customers)
             missing == AllCustomers \ b.used_customers
         IN IF missing = {} THEN [heap |-> b.heap, refs |-> b.child_routes]
            ELSE IF b.child_routes # <<>>
            THEN [heap |-> [b.heap EXCEPT ![b.child_routes[1]] = @ \o SetToList(missing)],
                  refs |-> b.child_routes]
            ELSE LET n == NewList(b.heap, SetToList(missing))
                 IN [heap |-> n.heap, refs |-> <<n.ref>>]

----------------------------------------------------------------------------
(* Fitness evaluation, lines 359-378 of VRPSolver.solve, in 1/CostScale. *)

(* Lines 363-370: route i (1-based) of a solution; a route whose index has
   no vehicle adds nothing. *)
RouteScore(solution, i) ==
    LET route == solution[i]
    IN IF route # <<>> /\ i <= Len(vehicles)
       THEN IF IsFeasibleRoute(route, vehicles[i])
            THEN CalculateRouteCost(route, vehicles[i])
            ELSE (InfeasiblePenalty
                    + SumSeq([k \in DOMAIN route |-> customers[route[k]].demand]))
                 * CostScale
       ELSE 0

(* Lines 373-376 *)
Unassigned(solution) == AllCustomers \ Range(Flatten(solution))

Fitness(solution) ==
    SumSeq([i \in DOMAIN solution |-> RouteScore(solution, i)])
      + Cardinality(Unassigned(solution)) * UnassignedPenalty * CostScale

(* np.argmin: the first index of the minimum *)
ArgMin(scores) ==
    CHOOSE i \in DOMAIN scores :
       /\ \A j \in DOMAIN scores : scores[i] <= scores[j]
       /\ \A j \in 1..(i - 1) : scores[j] > scores[i]

MinOf(scores) == scores[ArgMin(scores)]

(* Mutant: the indices in any order. *)
ArgSortsAny(scores) ==
    {p \in [DOMAIN scores -> DOMAIN scores] :
        \A i, j \in DOMAIN scores : i # j => p[i] # p[j]}

(* np.argsort: the orders of the indices that are ascending in score; the
   order of equal scores is left to the sort. *)
ArgSorts(scores) ==
    {p \in [DOMAIN scores -> DOMAIN scores] :
        /\ \A i, j \in DOMAIN scores : i # j => p[i] # p[j]
        /\ \A i, j \in DOMAIN scores : i < j => scores[p[i]] <= scores[p[j]]}

----------------------------------------------------------------------------
(* VRPSolver._format_solution *)

(* Lines 450-475: the routes that are reported, in order. *)
RECURSIVE FormattedRoutes(_, _)
FormattedRoutes(routes, i) ==
    IF i > Len(routes) THEN <<>>
    ELSE IF routes[i] # <<>> /\ i <= Len(vehicles)
    THEN <<[vehicle_id |-> i - 1,
            route |-> <<0>> \o routes[i] \o <<0>>,
            distance |-> RouteDistance(routes[i]),
            cost |-> CalculateRouteCost(routes[i], vehicles[i]),
            customers_served |-> Len(routes[i])]>>
         \o FormattedRoutes(routes, i + 1)
    ELSE FormattedRoutes(routes, i + 1)

(* Lines 481-483 *)
ServedCustomers(formatted_routes) ==
    {c \in UNION {Range(formatted_routes[k].route) : k \in DOMAIN formatted_routes} :
        c > 0}

(* Mutant: served customers taken from every route handed in, reported or
   not. *)
FormatSolutionAllRoutes(routes) ==
    LET formatted_routes == FormattedRoutes(routes, 1)
        served_customers == Range(Flatten(routes))
        unserved == AllCustomers \ served_customers
    IN [routes |-> formatted_routes,
        total_cost |-> SumSeq([k \in DOMAIN formatted_routes |-> formatted_routes[k].cost]),
        total_distance |->
            SumSeq([k \in DOMAIN formatted_routes |-> formatted_routes[k].distance]),
        vehicles_used |->
            Cardinality({k \in DOMAIN formatted_routes :
                           formatted_routes[k].customers_served > 0}),
        customers_served |-> Cardinality(served_customers),
        unserved_customers |-> SetToList(unserved),
        success |-> Cardinality(unserved) = 0]

FormatSolution(routes) ==
    LET formatted_routes == FormattedRoutes(routes, 1)
        served_customers == ServedCustomers(formatted_routes)
        unserved == AllCustomers \ served_customers
    IN [routes |-> formatted_routes,
        total_cost |-> SumSeq([k \in DOMAIN formatted_routes |-> formatted_routes[k].cost]),
        total_distance |->
            SumSeq([k \in DOMAIN formatted_routes |-> formatted_routes[k].distance]),
        vehicles_used |->
            Cardinality({k \in DOMAIN formatted_routes :
                           formatted_routes[k].customers_served > 0}),
        customers_served |-> Cardinality(served_customers),
        unserved_customers |-> SetToList(unserved),
        success |-> Cardinality(unserved) = 0]

(* Line 328: what solve returns for an empty customer list. *)
EmptyResult == [routes |-> <<>>, total_cost |-> 0, total_distance |-> 0]

(* Line 423: [[list(range(1, min(N + 1, 11)))]], a list of one route whose
   only stop is the list of the first ten customers. *)
BasicSolution ==
    << <<[k \in 1..(Min2(NumCustomers + 1, FirstTen) - 1) |-> k]>> >>

(* _format_solution on the basic solution: its only route is non-empty, so
   with a vehicle (line 451) line 457 indexes the distance matrix with the
   list that is the route's only stop, and the sum of line 463 fails on
   arrays of min(N, 10) and N + 1 entries: an exception inside the try
   block.  Without a vehicle no route is looked at. *)
FormatBasicSolutionRaises == Len(vehicles) >= 1

(* Lines 432-440: the emergency solution; evaluated only when there is a
   vehicle (line 433 divides by the number of vehicles). *)
RECURSIVE EmergencyRoutes(_, _)
EmergencyRoutes(i, customers_per_vehicle) ==
    IF i >= Len(vehicles) THEN <<>>
    ELSE LET start_idx == i * customers_per_vehicle + 1
             end_idx == Min2(start_idx + customers_per_vehicle, NumCustomers + 1)
             stop == Min2(end_idx, NumCustomers + 1)
         IN (IF start_idx <= NumCustomers
             THEN <<[k \in 1..Max2(0, stop - start_idx) |-> start_idx + k - 1]>>
             ELSE <<>>)
            \o EmergencyRoutes(i + 1, customers_per_vehicle)

EmergencySolution ==
    EmergencyRoutes(0, Max2(1, NumCustomers \div Len(vehicles)))

----------------------------------------------------------------------------
(* Inputs: the solver is constructed on one of these. *)
Depot == Customer(0, 50, 50, 0, 0, 1000, 0)
T1 == Customer(1, 20, 20, 10, 0, 1000, 0)
T2 == Customer(2, 80, 80, 10, 0, 1000, 0)
T3 == Customer(3, 50, 10, 10, 0, 1000, 0)

(* Three customers, two vehicles that can each take all of them. *)
InputThreeCustomers ==
    [customers |-> <<T1, T2, T3>>,
     vehicles |-> <<Vehicle(50, 100, 100), Vehicle(50, 100, 100)>>,
     enable_discharge |-> FALSE, max_iterations |-> MaxIterations]
(* One customer whose demand exceeds the only vehicle's capacity. *)
InputOverCapacity ==
    [customers |-> <<T1>>,
     vehicles |-> <<Vehicle(5, 100, 100)>>,
     enable_discharge |-> FALSE, max_iterations |-> MaxIterations]
(* Three customers on a line east of the depot, two vehicles that take two
   customers each: the nearest-neighbour routes <<1, 2>>, <<3>> are longer
   than <<1>>, <<2, 3>>. *)
L1 == Customer(1, 60, 50, 10, 0, 1000, 0)
L2 == Customer(2, 80, 50, 10, 0, 1000, 0)
L3 == Customer(3, 90, 50, 10, 0, 1000, 0)
InputLine ==
    [customers |-> <<L1, L2, L3>>,
     vehicles |-> <<Vehicle(20, 100, 100), Vehicle(20, 100, 100)>>,
     enable_discharge |-> FALSE, max_iterations |-> MaxIterations]
(* Two customers, each over the capacity of the only vehicle. *)
InputTwoOverCapacity ==
    [customers |-> <<T1, T2>>,
     vehicles |-> <<Vehicle(5, 100, 100)>>,
     enable_discharge |-> FALSE, max_iterations |-> MaxIterations]
(* max_iterations set to 0 before solve: the loop body never runs. *)
InputNoIterations ==
    [customers |-> <<T1, T2, T3>>,
     vehicles |-> <<Vehicle(50, 100, 100), Vehicle(50, 100, 100)>>,
     enable_discharge |-> FALSE, max_iterations |-> 0]
InputNoIterationsNoVehicles ==
    [customers |-> <<T1, T2>>, vehicles |-> <<>>, enable_discharge |-> FALSE,
     max_iterations |-> 0]
InputNoVehicles ==
    [customers |-> <<T1, T2>>, vehicles |-> <<>>, enable_discharge |-> FALSE,
     max_iterations |-> MaxIterations]
InputNoCustomers ==
    [customers |-> <<>>, vehicles |-> <<Vehicle(50, 100, 100)>>,
     enable_discharge |-> FALSE, max_iterations |-> MaxIterations]

Inputs == {InputThreeCustomers, InputOverCapacity, InputTwoOverCapacity, InputLine,
           InputNoVehicles, InputNoCustomers,
           InputNoIterations, InputNoIterationsNoVehicles}

(* Three customers around the depot for the evaluators: E1 is due at 30
   and served for 5, E2 is far and due at 32, E3 opens at the start of the
   peak interval and is served for 2. *)
E1 == Customer(1, 60, 50, 10, 0, 30, 5)
E2 == Customer(2, 80, 50, 10, 0, 32, 0)
E3 == Customer(3, 50, 60, 15, 17, 1000, 2)

(* A vehicle of small capacity and one of small battery (range 50). *)
InputEvaluators(discharge) ==
    [customers |-> <<E1, E2, E3>>,
     vehicles |-> <<Vehicle(20, 100, 100), Vehicle(50, 5, 100)>>,
     enable_discharge |-> discharge, max_iterations |-> MaxIterations]

EvaluatorInputs == {InputEvaluators(TRUE), InputEvaluators(FALSE)}

(* Customers on the line through the depot for the constructive heuristic:
   the first west or far east, the second east with a service time, the
   third further east with or without an early due time. *)
H1(x) == Customer(1, x, 50, 10, 0, 1000, 0)
H2(x) == Customer(2, x, 50, 10, 0, 1000, 5)
H3(due_time, demand) == Customer(3, 80, 50, demand, 0, due_time, 0)

(* Fleets of one or two vehicles of capacity 4, 15 or 50. *)
Fleets ==
    {<<Vehicle(a, 100, 100)>> : a \in {4, 15, 50}}
      \cup {<<Vehicle(a, 100, 100), Vehicle(b, 100, 100)>> :
               a \in {4, 15, 50}, b \in {4, 15, 50}}

HeuristicInputs ==
    {[customers |-> <<H1(x1), H2(x2), H3(due_time, demand)>>,
      vehicles |-> fleet,
      enable_discharge |-> FALSE, max_iterations |-> MaxIterations] :
        x1 \in {40, 90}, x2 \in {60, 70}, due_time \in {30, 1000},
        demand \in {5, 10}, fleet \in Fleets}

(* Four customers that one vehicle takes in one route, for two_opt. *)
T4 == Customer(4, 50, 90, 10, 0, 1000, 0)
InputFourCustomers ==
    [customers |-> <<T1, T2, T3, T4>>,
     vehicles |-> <<Vehicle(50, 100, 100), Vehicle(50, 100, 100)>>,
     enable_discharge |-> FALSE, max_iterations |-> MaxIterations]

OperatorInputs == HeuristicInputs \cup {InputFourCustomers}

----------------------------------------------------------------------------
(* VRPSolver.__init__ *)

(* No pure function has been applied on its own yet. *)
NoApplication == [op |-> "none"]

InitOn(inputs) ==
    /\ \E in \in inputs :
          /\ customers = in.customers
          /\ vehicles = in.vehicles
          /\ enable_discharge = in.enable_discharge
          /\ max_iterations = in.max_iterations
          /\ distance_matrix = CalculateDistanceMatrix(Depot, in.customers)
    /\ best_solution = None
    /\ best_cost = Inf
    /\ pc = "idle"
    /\ population = <<>>
    /\ fitness_scores = <<>>
    /\ new_population = <<>>
    /\ elite = <<>>
    /\ iteration = 0
    /\ no_improvement_count = 0
    /\ result = NoResult
    /\ calls = 0
    /\ returned_by = "none"
    /\ evaluated_min = Inf
    /\ best_history = <<>>
    /\ eval_log = <<>>
    /\ applied = NoApplication

Init == InitOn(Inputs)

Input == <<customers, vehicles, enable_discharge, distance_matrix, max_iterations>>
Tracked == <<best_solution, best_cost>>
Locals == <<population, fitness_scores, new_population, elite,
            iteration, no_improvement_count>>
Ghost == <<evaluated_min, best_history>>
Applied == <<eval_log, applied>>

(* The locals of solve are gone once it has returned or raised. *)
DropLocals ==
    /\ population' = <<>>
    /\ fitness_scores' = <<>>
    /\ new_population' = <<>>
    /\ elite' = <<>>
    /\ iteration' = 0
    /\ no_improvement_count' = 0

(* Lines 335-349: the seeded population. *)
SeedPopulation ==
    LET solution == GenerateInitialSolution
        seeded == IF solution # <<>> THEN [k \in 1..PopulationSize |-> solution]
                  ELSE <<>>
    IN IF seeded = <<>> THEN << <<[k \in 1..NumCustomers |-> k]>> >> ELSE seeded

(* solve is called: lines 321-354. *)
Solve ==
    /\ pc \in {"idle", "returned", "raised"}
    /\ calls < MaxCalls
    /\ calls' = calls + 1
    /\ evaluated_min' = Inf
    /\ best_history' = <<best_cost>>
    /\ fitness_scores' = <<>>
    /\ new_population' = <<>>
    /\ elite' = <<>>
    /\ iteration' = 0
    /\ no_improvement_count' = 0
    /\ IF customers = <<>>
       THEN /\ result' = EmptyResult
            /\ returned_by' = "no_customers"
            /\ pc' = "returned"
            /\ population' = <<>>
       ELSE /\ result' = NoResult
            /\ returned_by' = "none"
            /\ population' = SeedPopulation
            /\ pc' = IF max_iterations > 0 THEN "evaluating" ELSE "finished"
    /\ UNCHANGED <<Applied, Input, Tracked>>

(* Mutant: the early-termination test one generation late. *)
EarlyTerminationLate(count) == count > NoImprovementLimit

(* Line 393: the early-termination test. *)
EarlyTermination(count) == count >= NoImprovementLimit

(* Lines 357-395: one generation is evaluated, the best is tracked and the
   early termination is decided. *)
Evaluate ==
    /\ pc = "evaluating"
    /\ LET scores == [i \in DOMAIN population |-> Fitness(population[i])]
           current_best_idx == ArgMin(scores)
           current_best_cost == scores[current_best_idx]
           improved == current_best_cost < best_cost
           count == IF improved THEN 0 ELSE no_improvement_count + 1
       IN /\ fitness_scores' = scores
          /\ best_cost' = IF improved THEN current_best_cost ELSE best_cost
          /\ best_solution' = IF improved THEN population[current_best_idx]
                              ELSE best_solution
          /\ no_improvement_count' = count
          /\ pc' = IF EarlyTermination(count) THEN "finished" ELSE "selecting"
          /\ evaluated_min' = Min2(evaluated_min, MinOf(scores))
          /\ best_history' = Append(best_history, best_cost')
    /\ UNCHANGED <<Applied, Input, population, new_population, elite, iteration,
                   result, calls, returned_by>>

(* Lines 398-401: the elite opens the next population. *)
Select ==
    /\ pc = "selecting"
    /\ \E sorted_indices \in ArgSorts(fitness_scores) :
          /\ elite' = [k \in 1..Min2(EliteSize, Len(population)) |->
                          population[sorted_indices[k]]]
          /\ new_population' = elite'
    /\ pc' = "reproducing"
    /\ UNCHANGED <<Applied, Input, Tracked, population, fitness_scores, iteration,
                   no_improvement_count, result, calls, returned_by, Ghost>>

(* Lines 404-408: crossover of two elite members, or a copy of one. *)
Offspring ==
    (IF Len(elite) > 1
     THEN {CrossoverSolutions(elite[a], elite[b]) :
             <<a, b>> \in {t \in (DOMAIN elite) \X (DOMAIN elite) : t[1] # t[2]}}
     ELSE {})
    \cup {elite[k] : k \in DOMAIN elite}

(* Lines 403-413: one pass of the while loop; a failing mutation leaves the
   try block. *)
Reproduce ==
    /\ pc = "reproducing"
    /\ Len(new_population) < PopulationSize
    /\ \E child \in Offspring :
       \E m \in {Ok(child)} \cup MutateSolution(child) :
          IF m.raised
          THEN /\ pc' = "except"
               /\ UNCHANGED new_population
          ELSE /\ new_population' = Append(new_population, m.routes)
               /\ pc' = pc
    /\ UNCHANGED <<Applied, Input, Tracked, population, fitness_scores, elite, iteration,
                   no_improvement_count, result, calls, returned_by, Ghost>>

(* Lines 415 and 356: the new population replaces the old one and the for
   loop advances. *)
NextGeneration ==
    /\ pc = "reproducing"
    /\ Len(new_population) >= PopulationSize
    /\ population' = new_population
    /\ new_population' = <<>>
    /\ elite' = <<>>
    /\ fitness_scores' = <<>>
    /\ iteration' = iteration + 1
    /\ pc' = IF iteration + 1 < max_iterations THEN "evaluating" ELSE "finished"
    /\ UNCHANGED <<Applied, Input, Tracked, no_improvement_count, result, calls,
                   returned_by, Ghost>>

(* Lines 420-427: the loop is over. *)
Finish ==
    /\ pc = "finished"
    /\ IF best_solution = None /\ FormatBasicSolutionRaises
       THEN /\ pc' = "except"
            /\ UNCHANGED <<result, returned_by, Locals>>
       ELSE /\ IF best_solution = None
               THEN /\ result' = FormatSolution(BasicSolution)
                    /\ returned_by' = "first_ten"
               ELSE /\ result' = FormatSolution(best_solution)
                    /\ returned_by' = "normal"
            /\ pc' = "returned"
            /\ DropLocals
    /\ UNCHANGED <<Applied, Input, Tracked, calls, Ghost>>

(* Lines 429-442: the except handler.  Without a vehicle line 433 raises
   ZeroDivisionError, which leaves solve. *)
EmergencyFallback ==
    /\ pc = "except"
    /\ IF Len(vehicles) = 0
       THEN /\ pc' = "raised"
            /\ result' = NoResult
            /\ returned_by' = "exception"
       ELSE /\ result' = FormatSolution(EmergencySolution)
            /\ returned_by' = "emergency"
            /\ pc' = "returned"
    /\ DropLocals
    /\ UNCHANGED <<Applied, Input, Tracked, calls, Ghost>>

Next ==
    \/ Solve
    \/ Evaluate
    \/ Select
    \/ Reproduce
    \/ NextGeneration
    \/ Finish
    \/ EmergencyFallback

Spec == Init /\ [][Next]_vars

(* The steps of the body of solve. *)
SolveStep ==
    Evaluate \/ Select \/ Reproduce \/ NextGeneration \/ Finish \/ EmergencyFallback

----------------------------------------------------------------------------
(* Properties. *)

IsInput(in) ==
    /\ customers = in.customers
    /\ vehicles = in.vehicles
    /\ enable_discharge = in.enable_discharge
    /\ max_iterations = in.max_iterations

(* Every assignment the solver currently holds. *)
Members ==
    Range(population) \cup Range(new_population) \cup Range(elite)
      \cup (IF best_solution = None THEN {} ELSE {best_solution})

NoDuplicate(solution) ==
    LET flat == Flatten(solution)
    IN \A i, j \in DOMAIN flat : i # j => flat[i] # flat[j]

(* C1: on the three-customer scenario (two vehicles of capacity 50) every
   result solve returns has an empty unserved list and success = TRUE. *)
C1_ScenarioAllServed ==
    (IsInput(InputThreeCustomers) /\ pc \in {"returned", "raised"}) =>
        /\ pc = "returned"
        /\ result.unserved_customers = <<>>
        /\ result.success = TRUE

(* C2: with one vehicle of capacity 5 and one customer of demand 10, solve
   returns normally with success = FALSE and the customer listed as
   unserved. *)
C2_OverCapacityUnserved ==
    (IsInput(InputOverCapacity) /\ pc \in {"returned", "raised"}) =>
        /\ pc = "returned"
        /\ result.success = FALSE
        /\ 1 \in Range(result.unserved_customers)

(* C3: solve never lets an exception reach its caller. *)
C3_NeverRaises == pc # "raised"

(* C4: every result solve returns has a success flag and an unserved
   list. *)
C4_ResultHasFlags ==
    pc = "returned" =>
        /\ "success" \in DOMAIN result
        /\ "unserved_customers" \in DOMAIN result

(* The customers that appear in no reported route of a result. *)
InNoReportedRoute(res) ==
    {c \in AllCustomers :
        \A k \in DOMAIN res.routes : c \notin Range(res.routes[k].route)}

FormatContract(res) ==
    /\ Range(res.unserved_customers) = InNoReportedRoute(res)
    /\ Len(res.unserved_customers) = Cardinality(InNoReportedRoute(res))
    /\ res.success = (res.unserved_customers = <<>>)
    /\ res.customers_served + Len(res.unserved_customers) = NumCustomers

(* C5: a result of _format_solution lists as unserved exactly the customers
   in no reported route, has success = TRUE iff that list is empty, and
   customers_served plus the number of unserved customers is N.  Checked on
   every result _format_solution returned and on the formatting of every
   assignment of every generation. *)
C5_FormatContract ==
    /\ (pc = "returned" /\ returned_by \in {"normal", "first_ten", "emergency"})
          => FormatContract(result)
    /\ pc = "evaluating"
          => \A m \in Range(population) : FormatContract(FormatSolution(m))

(* Witness of C5: a formatted result that reports routes and leaves a
   customer unserved. *)
C5_Witness ==
    /\ pc = "returned"
    /\ returned_by = "normal"
    /\ result.routes # <<>>
    /\ result.unserved_customers # <<>>
    /\ result.success = FALSE

(* C6: no assignment of any generation holds a customer twice. *)
C6_NoDuplicateService == \A m \in Members : NoDuplicate(m)

(* Witness of C6: a later generation holding a member that crossover or
   mutation made different from the seeded assignment. *)
C6_Witness ==
    /\ pc = "evaluating"
    /\ iteration >= 1
    /\ \E i \in DOMAIN population :
          /\ population[i] # GenerateInitialSolution
          /\ Len(Flatten(population[i])) = NumCustomers
          /\ Len(population[i]) >= 2

(* C7: no assignment has more routes than there are vehicles. *)
C7_AtMostOneRoutePerVehicle == \A m \in Members : Len(m) <= Len(vehicles)

(* The number of generations, counted back from the last one evaluated,
   that did not strictly improve the best fitness. *)
Stale(h) ==
    LET n == Len(h)
    IN CHOOSE s \in 0..(n - 1) :
          /\ \A k \in (n - s + 1)..n : h[k] >= h[k - 1]
          /\ (s = n - 1 \/ h[n - s] < h[n - s - 1])

NonIncreasing(h) == \A k \in 2..Len(h) : h[k] <= h[k - 1]

(* C8: within a solve call the best fitness never increases, and after each
   evaluation it is the least fitness evaluated in the call so far, attained
   by the tracked best assignment. *)
C8_BestIsMinimumOfCall ==
    /\ NonIncreasing(best_history)
    /\ (Len(best_history) >= 2 /\ pc \notin {"returned", "raised"}) =>
          /\ best_cost = evaluated_min
          /\ best_solution # None
          /\ Fitness(best_solution) = best_cost

(* A call of solve is under way. *)
Running == pc \in {"evaluating", "selecting", "reproducing", "finished", "except"}

(* The number of steps the call under way can still take, at most. *)
Rank ==
    LET per_generation == PopulationSize + 4
        left == (max_iterations - iteration) * per_generation
    IN CASE pc = "evaluating" -> left + PopulationSize + 3
         [] pc = "selecting" -> left + PopulationSize + 2
         [] pc = "reproducing" ->
               left + 1 + Max2(0, PopulationSize - Len(new_population))
         [] pc = "finished" -> 2
         [] pc = "except" -> 1
         [] OTHER -> 0

(* The guards of the steps of solve: some step of a call under way can be
   taken. *)
CanStep ==
    \/ pc = "evaluating" /\ population # <<>>
    \/ pc = "selecting" /\ ArgSorts(fitness_scores) # {}
    \/ pc = "reproducing" /\ Len(new_population) < PopulationSize /\ Offspring # {}
    \/ pc = "reproducing" /\ Len(new_population) >= PopulationSize
    \/ pc \in {"finished", "except"}

(* C9: the loop terminates: every step of a call under way lowers a bounded
   count of the steps left and a call under way can always take a step; it
   evaluates at most max_iterations generations; selection and reproduction
   happen only while fewer than no_improvement_limit generations in a row
   went without improvement, and the generation that reaches the limit ends
   the loop. *)
C9_LoopTerminates ==
    /\ [](/\ Len(best_history) <= max_iterations + 1
          /\ (pc = "evaluating" => iteration < max_iterations)
          /\ (pc \in {"selecting", "reproducing"}
                => Stale(best_history) < NoImprovementLimit)
          /\ Rank >= 0
          /\ (Running => CanStep))
    /\ [][Running => Rank' < Rank]_vars
    /\ [][(pc = "evaluating" /\ Stale(best_history') >= NoImprovementLimit)
             => pc' = "finished"]_vars
    /\ [][pc = "finished" => pc' \in {"returned", "except"}]_vars

(* Witness of C9: the loop has stopped early, before the last generation,
   on the no-improvement limit. *)
C9_Witness ==
    /\ pc = "finished"
    /\ iteration + 1 < max_iterations
    /\ no_improvement_count = NoImprovementLimit
    /\ Stale(best_history) = NoImprovementLimit
    /\ elite = <<>>

(* C10: every solve call starts with no recorded best assignment and no
   recorded best fitness. *)
C10_CallStartsFresh ==
    (pc = "evaluating" /\ iteration = 0) =>
        /\ best_solution = None
        /\ best_cost = Inf

----------------------------------------------------------------------------
(* The evaluators and crossover applied on their own to a constructed
   solver, over every bounded argument. *)

(* Every sequence of distinct customers. *)
Routes ==
    {r \in UNION {[1..n -> AllCustomers] : n \in 0..NumCustomers} :
        \A i, j \in DOMAIN r : i # j => r[i] # r[j]}

(* Every duplicate-free assignment of at most MaxRoutes routes; it may leave
   customers out and may hold empty routes. *)
Assignments ==
    {a \in UNION {[1..n -> Routes] : n \in 0..MaxRoutes} : NoDuplicate(a)}

PureInit == InitOn(EvaluatorInputs)

(* One call of _is_feasible_route and of _calculate_route_cost on the same
   route and vehicle; eval_log records what they returned. *)
EvaluateRoute ==
    /\ pc = "idle"
    /\ applied = NoApplication
    /\ Len(eval_log) < MaxEvals
    /\ \E route \in Routes, v \in DOMAIN vehicles :
          /\ eval_log' = Append(eval_log,
                [route |-> route, vehicle |-> v,
                 feasible |-> IsFeasibleRoute(route, vehicles[v]),
                 cost |-> CalculateRouteCost(route, vehicles[v])])
          /\ vehicles' = [vehicles EXCEPT ![v] = VehicleAfterEvaluation(@, route)]
    /\ UNCHANGED <<customers, enable_discharge, distance_matrix, max_iterations,
                   applied,
                   Tracked, Locals, Ghost, pc, result, calls, returned_by>>

(* One call of _crossover_solutions; applied records its arguments and the
   child it returned. *)
ApplyCrossover ==
    /\ pc = "idle"
    /\ applied = NoApplication
    /\ eval_log = <<>>
    /\ \E parent1, parent2 \in Assignments :
       \E same_object \in (IF parent1 = parent2 THEN BOOLEAN ELSE {FALSE}) :
          LET p1 == StoreAssignment(<<>>, parent1)
              p2 == IF same_object THEN p1 ELSE StoreAssignment(p1.heap, parent2)
              c == CrossoverInPlace(p2.heap, p1.refs, p2.refs)
          IN applied' = [op |-> "crossover", parent1 |-> parent1, parent2 |-> parent2,
                         same_object |-> same_object,
                         child |-> CrossoverSolutions(parent1, parent2),
                         child_in_place |-> Deref(c.heap, c.refs),
                         parent1_after |-> Deref(c.heap, p1.refs),
                         parent2_after |-> Deref(c.heap, p2.refs)]
    /\ UNCHANGED <<eval_log, Input, Tracked, Locals, Ghost, pc, result, calls,
                   returned_by>>

(* One call of _mutate_solution; applied records its argument before and
   after the call, the mutation type drawn and what was returned. *)
ApplyMutation ==
    /\ pc = "idle"
    /\ applied = NoApplication
    /\ eval_log = <<>>
    /\ \E routes \in Assignments, mutation_type \in MutationTypes :
          LET arg == StoreAssignment(<<>>, routes)
          IN \E m \in MutateInPlace(arg.heap, arg.refs, mutation_type) :
                applied' = [op |-> "mutate", routes |-> routes,
                            mutation_type |-> mutation_type,
                            raised |-> m.raised,
                            outcome |-> IF m.raised THEN <<>>
                                        ELSE Deref(m.heap, m.refs),
                            routes_after |-> Deref(m.heap, arg.refs)]
    /\ UNCHANGED <<eval_log, Input, Tracked, Locals, Ghost, pc, result, calls,
                   returned_by>>

PureNext ==
    \/ EvaluateRoute
    \/ ApplyCrossover
    \/ ApplyMutation

PureSpec == PureInit /\ [][PureNext]_vars

----------------------------------------------------------------------------
(* The constructive heuristic, one seeding step and mutation applied on
   their own, over a family of inputs. *)

OperatorInit == InitOn(OperatorInputs)

(* One call of _generate_initial_solution. *)
ApplyHeuristic ==
    /\ pc = "idle"
    /\ applied = NoApplication
    /\ eval_log = <<>>
    /\ applied' = [op |-> "heuristic", routes |-> GenerateInitialSolution]
    /\ UNCHANGED <<eval_log, Input, Tracked, Locals, Ghost, pc, result, calls,
                   returned_by>>

(* Lines 335-341: one pass of the seeding loop.  shuffled_customers is
   shuffled and _generate_initial_solution is called without it. *)
SeedMember ==
    /\ pc = "idle"
    /\ applied = NoApplication
    /\ eval_log = <<>>
    /\ \E shuffled_customers \in
            {o \in [1..NumCustomers -> AllCustomers] :
                \A i, j \in 1..NumCustomers : i # j => o[i] # o[j]} :
          applied' = [op |-> "seed", shuffled_customers |-> shuffled_customers,
                      solution |-> GenerateInitialSolution]
    /\ UNCHANGED <<eval_log, Input, Tracked, Locals, Ghost, pc, result, calls,
                   returned_by>>

OperatorNext ==
    \/ ApplyHeuristic
    \/ SeedMember
    \/ ApplyMutation

OperatorSpec == OperatorInit /\ [][OperatorNext]_vars

(* The number of positions at which an assignment holds customer c. *)
Occurrences(solution, c) ==
    LET flat == Flatten(solution)
    IN Cardinality({i \in DOMAIN flat : flat[i] = c})

(* C11: the emergency fallback assignment holds every customer in exactly
   one route, so the result it is formatted into leaves nobody unserved. *)
C11_EmergencyPartition ==
    (pc = "returned" /\ returned_by = "emergency") =>
        /\ \A c \in AllCustomers : Occurrences(EmergencySolution, c) = 1
        /\ result.unserved_customers = <<>>

(* C12: two evaluations of the same route on the same vehicle return the
   same verdict and the same cost whatever was evaluated in between, and an
   evaluation leaves the fields of every vehicle and the state of the solver
   as they were. *)
C12_EvaluationIsPure ==
    /\ [](\A i, j \in DOMAIN eval_log :
            (eval_log[i].route = eval_log[j].route
                /\ eval_log[i].vehicle = eval_log[j].vehicle)
            => /\ eval_log[i].feasible = eval_log[j].feasible
               /\ eval_log[i].cost = eval_log[j].cost)
    /\ [][eval_log' # eval_log =>
            /\ vehicles' = vehicles
            /\ UNCHANGED <<customers, enable_discharge, distance_matrix,
                           max_iterations, Tracked, Locals>>]_vars

(* The same non-empty route was evaluated on the same vehicle twice, with
   an evaluation of another route in between. *)
C12_Witness ==
    /\ Len(eval_log) = 3
    /\ eval_log[1].route # <<>>
    /\ eval_log[1].route = eval_log[3].route
    /\ eval_log[1].vehicle = eval_log[3].vehicle
    /\ eval_log[2].route # eval_log[1].route
    /\ eval_log[2].route # <<>>

(* The k-th stop of the round trip of a route; the depot is stop 0 and the
   stop after the last customer. *)
Stop(route, k) == IF k = 0 \/ k = Len(route) + 1 THEN 0 ELSE route[k]

(* depot -> customers in order -> depot, in 1/DistScale *)
RoundTrip(route) ==
    SumSeq([k \in 1..(Len(route) + 1) |->
              distance_matrix[Stop(route, k - 1)][Stop(route, k)]])

(* Arrival at, start of service at and departure from the k-th customer of
   a route: unit speed, waiting for the ready time, then the service time. *)
RECURSIVE ArrivalTime(_, _)
RECURSIVE ServiceStart(_, _)
RECURSIVE ServiceEnd(_, _)
ArrivalTime(route, k) ==
    (IF k = 1 THEN 0 ELSE ServiceEnd(route, k - 1))
        + distance_matrix[Stop(route, k - 1)][route[k]]

ServiceStart(route, k) ==
    Max2(ArrivalTime(route, k), customers[route[k]].ready_time * DistScale)

ServiceEnd(route, k) ==
    ServiceStart(route, k) + customers[route[k]].service_time * DistScale

WithinCapacity(route, vehicle) ==
    SumSeq([k \in DOMAIN route |-> customers[route[k]].demand]) <= vehicle.capacity

WithinBattery(route, vehicle) ==
    RoundTrip(route) * vehicle.consumption_rate
        <= vehicle.battery_capacity * DistScale * RateScale

WithinTimeWindows(route) ==
    \A k \in DOMAIN route :
        ArrivalTime(route, k) <= customers[route[k]].due_time * DistScale

(* C13: _is_feasible_route returns true exactly when the demands of the
   route fit the capacity, the energy of the round trip fits the battery
   and every customer is reached by its due time; the empty route is
   feasible. *)
C13_FeasibleIffThreeConditions ==
    \A i \in DOMAIN eval_log :
        LET e == eval_log[i]
            vehicle == vehicles[e.vehicle]
        IN /\ e.feasible <=> /\ WithinCapacity(e.route, vehicle)
                             /\ WithinBattery(e.route, vehicle)
                             /\ WithinTimeWindows(e.route)
           /\ e.route = <<>> => e.feasible

(* A route was rejected for the energy of its round trip alone, another for
   a due time alone, and a non-empty route was accepted. *)
C13_Witness ==
    /\ \E i \in DOMAIN eval_log :
          LET e == eval_log[i]
          IN /\ ~e.feasible
             /\ WithinCapacity(e.route, vehicles[e.vehicle])
             /\ WithinTimeWindows(e.route)
    /\ \E i \in DOMAIN eval_log :
          LET e == eval_log[i]
          IN /\ ~e.feasible
             /\ WithinCapacity(e.route, vehicles[e.vehicle])
             /\ WithinBattery(e.route, vehicles[e.vehicle])
    /\ \E i \in DOMAIN eval_log : eval_log[i].feasible /\ eval_log[i].route # <<>>

(* 0.1 per time unit of the overlap of every service interval of a route
   with the peak interval, in 1/CostScale. *)
OverlapBenefit(route) ==
    (SumSeq([k \in DOMAIN route |->
               Max2(0, Min2(ServiceEnd(route, k), peak_hours[2])
                         - Max2(ServiceStart(route, k), peak_hours[1]))])
        * CostScale) \div (DistScale * 10)

(* C14: the cost of a non-empty route is its round-trip distance minus the
   discharge benefit, which is 0 when discharge is disabled and else 0.1
   times the summed overlap of the service intervals with the peak interval;
   with discharge enabled a one-customer route whose service has positive
   length and lies inside the peak interval costs less than its round trip. *)
C14_CostIsDistanceMinusBenefit ==
    \A i \in DOMAIN eval_log :
        LET e == eval_log[i]
            round_trip == RoundTrip(e.route) * (CostScale \div DistScale)
        IN e.route # <<>> =>
            /\ e.cost = round_trip
                          - (IF enable_discharge THEN OverlapBenefit(e.route) ELSE 0)
            /\ (/\ enable_discharge
                /\ Len(e.route) = 1
                /\ customers[e.route[1]].service_time > 0
                /\ peak_hours[1] <= ServiceStart(e.route, 1)
                /\ ServiceEnd(e.route, 1) <= peak_hours[2])
               => e.cost < round_trip

(* With discharge enabled a one-customer route served inside the peak
   interval and a longer route with a benefit were costed. *)
C14_Witness ==
    /\ enable_discharge
    /\ \E i \in DOMAIN eval_log :
          LET e == eval_log[i]
          IN /\ Len(e.route) = 1
             /\ customers[e.route[1]].service_time > 0
             /\ peak_hours[1] <= ServiceStart(e.route, 1)
             /\ ServiceEnd(e.route, 1) <= peak_hours[2]
             /\ e.cost < RoundTrip(e.route) * (CostScale \div DistScale)
    /\ \E i \in DOMAIN eval_log :
          LET e == eval_log[i]
          IN Len(e.route) > 1 /\ OverlapBenefit(e.route) > 0

(* The customers an assignment serves. *)
Served(solution) == Range(Flatten(solution))

(* C15: the child of a crossover of two duplicate-free parents holds every
   customer exactly once. *)
C15_CrossoverChildComplete ==
    applied.op = "crossover" =>
        \A c \in AllCustomers : Occurrences(applied.child, c) = 1

(* C16 as stated: the crossover of a duplicate-free assignment with itself
   is duplicate-free and serves the customers the assignment serves. *)
C16_SelfCrossoverSameCoverage ==
    (applied.op = "crossover" /\ applied.parent1 = applied.parent2) =>
        /\ NoDuplicate(applied.child)
        /\ Served(applied.child) = Served(applied.parent1)

(* C16 amended: the crossover of a duplicate-free assignment with itself is
   duplicate-free; it serves nobody when the assignment serves nobody and
   every customer otherwise, so the coverage is kept only by an assignment
   that serves all customers or none. *)
C16_SelfCrossoverCompletes ==
    (applied.op = "crossover" /\ applied.parent1 = applied.parent2) =>
        /\ NoDuplicate(applied.child)
        /\ Served(applied.child) =
              IF Served(applied.parent1) = {} THEN {} ELSE AllCustomers

(* A partial assignment was crossed with itself and the child serves a
   customer the assignment left out. *)
C16_Witness ==
    /\ applied.op = "crossover"
    /\ applied.parent1 = applied.parent2
    /\ Served(applied.parent1) # {}
    /\ Served(applied.parent1) # AllCustomers
    /\ Served(applied.child) = AllCustomers

(* The fitness the claim describes: every non-empty route is scored, a
   route beyond the fleet with the first vehicle (the comment at line 233). *)
ClaimedRouteScore(route, vehicle) ==
    IF IsFeasibleRoute(route, vehicle)
    THEN CalculateRouteCost(route, vehicle)
    ELSE (InfeasiblePenalty
            + SumSeq([k \in DOMAIN route |-> customers[route[k]].demand]))
         * CostScale

ClaimedFitness(solution) ==
    SumSeq([i \in DOMAIN solution |->
              IF solution[i] = <<>> THEN 0
              ELSE ClaimedRouteScore(solution[i],
                                     vehicles[IF i <= Len(vehicles) THEN i ELSE 1])])
      + Cardinality(AllCustomers \ Range(Flatten(solution)))
          * UnassignedPenalty * CostScale

(* C17: the fitness computed for an assignment scores every non-empty
   route (cost if feasible, else 1000 plus its demands) and adds 2000 per
   customer in no route.  Stated for fleets of at least one vehicle. *)
C17_FitnessScoresEveryRoute ==
    (pc = "selecting" /\ Len(vehicles) >= 1) =>
        \A i \in DOMAIN population :
            fitness_scores[i] = ClaimedFitness(population[i])

(* C18: the unserved list of a result returned on normal completion is the
   set of customers the fitness evaluation counted as unassigned for the
   returned best assignment.  Stated for fleets of at least one vehicle. *)
C18_UnservedMatchesFitness ==
    (pc = "returned" /\ returned_by = "normal" /\ Len(vehicles) >= 1) =>
        Range(result.unserved_customers) = Unassigned(best_solution)

(* C19: no mutation of a child of the generational loop fails, so solve
   never enters its except handler. *)
C19_MutationNeverFails ==
    /\ pc # "except"
    /\ pc = "reproducing" =>
          \A child \in Offspring : Raise \notin MutateSolution(child)

(* C20: the assignment the constructive heuristic returns, which seeds the
   population, has at most as many routes as there are vehicles.  Stated
   for fleets of at least one vehicle. *)
C20_SeedWithinFleet ==
    (pc = "evaluating" /\ iteration = 0 /\ Len(vehicles) >= 1) =>
        \A i \in DOMAIN population : Len(population[i]) <= Len(vehicles)

(* C24: when a generation is replaced, the first elite_size members of the
   next population are elite_size members of lowest fitness of the
   evaluated population, in ascending order of fitness, with the routes
   that were evaluated. *)
C24_ElitePrefixKept ==
    [][(pc = "reproducing" /\ pc' \in {"evaluating", "finished"}) =>
          \E idx \in [1..EliteSize -> DOMAIN population] :
             /\ \A k, l \in 1..EliteSize : k # l => idx[k] # idx[l]
             /\ \A k \in 1..EliteSize : population'[k] = population[idx[k]]
             /\ \A k \in 1..(EliteSize - 1) :
                   fitness_scores[idx[k]] <= fitness_scores[idx[k + 1]]
             /\ \A j \in DOMAIN population :
                   (\A k \in 1..EliteSize : idx[k] # j)
                   => fitness_scores[j] >= fitness_scores[idx[EliteSize]]]_vars

(* A generation whose members differ in fitness has been replaced: the
   next population opens with the better of two different elite members and
   holds a member that is not in the elite. *)
C24_Witness ==
    /\ pc = "evaluating"
    /\ iteration >= 2
    /\ population[1] # population[2]
    /\ Fitness(population[1]) < Fitness(population[2])
    /\ \E k \in DOMAIN population : k > EliteSize /\ population[k] # population[1]

(* C28: with at least one customer, every member of the population and of
   the population under construction holds every customer exactly once, and
   no fitness of the loop includes an unassigned-customer penalty. *)
C28_EveryMemberServesAll ==
    customers # <<>> =>
        /\ \A m \in Range(population) \cup Range(new_population) :
              \A c \in AllCustomers : Occurrences(m, c) = 1
        /\ pc = "selecting" =>
              \A i \in DOMAIN population :
                 fitness_scores[i] =
                    SumSeq([r \in DOMAIN population[i] |-> RouteScore(population[i], r)])

(* A child that is in neither the evaluated population nor the elite has
   joined the population under construction. *)
C28_Witness ==
    /\ pc = "reproducing"
    /\ Len(new_population) > Len(elite)
    /\ new_population[Len(new_population)] \notin Range(population)
    /\ Len(new_population[Len(new_population)]) > 1

(* C29: a result returned on normal completion with success true holds
   only routes that are feasible for the vehicle of their vehicle_id. *)
C29_SuccessMeansFeasible ==
    (pc = "returned" /\ returned_by = "normal" /\ result.success) =>
        \A k \in DOMAIN result.routes :
            LET r == result.routes[k]
            IN IsFeasibleRoute(SubSeq(r.route, 2, Len(r.route) - 1),
                               vehicles[r.vehicle_id + 1])

(* C25: crossover and mutation leave the assignments handed to them with
   the routes they had: both parents after a crossover and the argument
   after a mutation are what they were before the call.  The child computed
   on objects is the child computed on values. *)
C25_ArgumentsUnchanged ==
    /\ applied.op = "crossover" =>
          /\ applied.parent1_after = applied.parent1
          /\ applied.parent2_after = applied.parent2
          /\ applied.child_in_place = applied.child
    /\ applied.op = "mutate" => applied.routes_after = applied.routes

(* A partial assignment object was crossed with itself and the first list
   of the child was extended in place with the customers it lacked. *)
C25_Witness ==
    /\ applied.op = "crossover"
    /\ applied.same_object
    /\ Served(applied.parent1) # {}
    /\ Served(applied.parent1) # AllCustomers
    /\ Served(applied.child_in_place) = AllCustomers

(* The stragglers of the repair pass in turn, each with the routes before
   and after the pass has handled it. *)
RECURSIVE RepairSteps(_, _)
RepairSteps(todo, routes) ==
    IF todo = <<>> THEN <<>>
    ELSE LET r == RepairInsert(routes, 1, Head(todo))
         IN <<[customer_idx |-> Head(todo), before |-> routes, after |-> r.routes]>>
              \o RepairSteps(Tail(todo), r.routes)

(* The feasible insertions <<route, position>> of a customer. *)
FeasibleInsertions(routes, customer_idx) ==
    {ip \in (DOMAIN routes) \X (0..NumCustomers) :
        /\ ip[2] <= Len(routes[ip[1]])
        /\ IsFeasibleRoute(InsertAt(routes[ip[1]], ip[2], customer_idx),
                           vehicles[ip[1]])}

CostIncrease(routes, ip, customer_idx) ==
    CalculateRouteCost(InsertAt(routes[ip[1]], ip[2], customer_idx), vehicles[ip[1]])
        - CalculateRouteCost(routes[ip[1]], vehicles[ip[1]])

(* C21: a straggler with a feasible insertion is inserted at a route and
   position of minimal cost increase over every route and position. *)
C21_RepairTakesGlobalMinimum ==
    applied.op = "heuristic" =>
        LET g == GreedyPhase(1, AllCustomers, <<>>)
            steps == RepairSteps(SetToList(g.unvisited), g.routes)
        IN \A n \in DOMAIN steps :
              LET c == steps[n].customer_idx
                  before == steps[n].before
                  feas == FeasibleInsertions(before, c)
              IN feas # {} =>
                    \E ip \in feas :
                       /\ \A iq \in feas :
                             CostIncrease(before, ip, c) <= CostIncrease(before, iq, c)
                       /\ steps[n].after =
                             [before EXCEPT ![ip[1]] = InsertAt(before[ip[1]], ip[2], c)]

(* The vehicles of the greedy phase in turn, each with the customers that
   were unassigned when its route was started, the route it built and the
   customers it left. *)
RECURSIVE GreedyRuns(_, _)
GreedyRuns(v, unvisited) ==
    IF v > Len(vehicles) \/ unvisited = {} THEN <<>>
    ELSE LET g == GreedyRoute(<<>>, unvisited, 0, vehicles[v])
         IN <<[vehicle |-> v, route |-> g.route, before |-> unvisited,
               after |-> g.unvisited]>>
              \o GreedyRuns(v + 1, g.unvisited)

(* C22: every customer the greedy phase appends is an unassigned customer
   nearest to the last stop among those whose appended route is feasible
   for the vehicle; a route stops growing only when no unassigned customer
   can be appended; every route is feasible for the vehicle that built it. *)
C22_GreedyNearestFeasible ==
    applied.op = "heuristic" =>
        LET runs == GreedyRuns(1, AllCustomers)
        IN \A n \in DOMAIN runs :
              LET route == runs[n].route
                  vehicle == vehicles[runs[n].vehicle]
              IN /\ IsFeasibleRoute(route, vehicle)
                 /\ runs[n].after = runs[n].before \ Range(route)
                 /\ \A d \in runs[n].after : ~IsFeasibleRoute(Append(route, d), vehicle)
                 /\ \A k \in DOMAIN route :
                       LET prefix == SubSeq(route, 1, k - 1)
                           last == IF k = 1 THEN 0 ELSE route[k - 1]
                           left == runs[n].before \ Range(prefix)
                       IN /\ route[k] \in left
                          /\ IsFeasibleRoute(Append(prefix, route[k]), vehicle)
                          /\ \A d \in left :
                                IsFeasibleRoute(Append(prefix, d), vehicle) =>
                                   distance_matrix[last][route[k]]
                                      <= distance_matrix[last][d]

(* A vehicle built a route of two customers whose second stop was not the
   unassigned customer of lowest id, and left a customer it could not take. *)
C22_Witness ==
    /\ applied.op = "heuristic"
    /\ \E n \in DOMAIN GreedyRuns(1, AllCustomers) :
          LET run == GreedyRuns(1, AllCustomers)[n]
          IN /\ Len(run.route) >= 2
             /\ run.after # {}
             /\ \E d \in run.before \ {run.route[1]} : d < run.route[2]

(* C23: the heuristic considers the customers in the order drawn for the
   member.  Stated where the first vehicle can take the customers in every
   order, so that the member is one route: among the customers nearest to
   the depot, the route starts with the one that comes first in the drawn
   order. *)
C23_SeedFollowsDrawnOrder ==
    (/\ applied.op = "seed"
     /\ Len(vehicles) >= 1
     /\ \A route \in Routes : IsFeasibleRoute(route, vehicles[1])) =>
        LET order == applied.shuffled_customers
            position(c) == CHOOSE k \in DOMAIN order : order[k] = c
            nearest == {c \in AllCustomers :
                           \A d \in AllCustomers :
                              distance_matrix[0][c] <= distance_matrix[0][d]}
        IN
              /\ applied.solution[1][1] \in nearest
              /\ \A d \in nearest : position(applied.solution[1][1]) <= position(d)

(* The stops of a route other than customer c. *)
Except(route, c) == SelectSeq(route, LAMBDA x : x # c)

(* One route of after is a reordering of the same route of before and the
   other routes are the same. *)
ReordersOneRoute(before, after) ==
    \E r \in DOMAIN before :
       /\ \A q \in DOMAIN before : q # r => after[q] = before[q]
       /\ Len(after[r]) = Len(before[r])
       /\ Range(after[r]) = Range(before[r])

(* One customer of a non-empty route of before has moved to a position of
   some route, which may be the route it was in. *)
MovesOneCustomer(before, after) ==
    \E f \in DOMAIN before, t \in DOMAIN before :
    \E c \in Range(before[f]) :
       /\ \A q \in DOMAIN before : q \notin {f, t} => after[q] = before[q]
       /\ c \in Range(after[t])
       /\ Except(after[t], c) = Except(before[t], c)
       /\ f # t => after[f] = Except(before[f], c)

(* C26: a mutation that returns keeps the number of routes and the customer
   ids with their multiplicity; swap and two_opt reorder the stops of one
   route, two_opt leaving its first stop in place, and relocate moves one
   customer of a non-empty route to some route. *)
C26_MutationKeepsCustomers ==
    (applied.op = "mutate" /\ ~applied.raised) =>
        LET before == applied.routes
            after == applied.outcome
        IN /\ Len(after) = Len(before)
           /\ \A c \in AllCustomers : Occurrences(after, c) = Occurrences(before, c)
           /\ after # before =>
                 /\ applied.mutation_type \in {"swap", "two_opt"} =>
                       ReordersOneRoute(before, after)
                 /\ applied.mutation_type = "two_opt" =>
                       \A r \in DOMAIN before :
                          before[r] # <<>> => after[r][1] = before[r][1]
                 /\ applied.mutation_type = "relocate" =>
                       MovesOneCustomer(before, after)

(* A two_opt has reversed a segment of a route of four stops. *)
C26_Witness ==
    /\ applied.op = "mutate"
    /\ ~applied.raised
    /\ applied.mutation_type = "two_opt"
    /\ applied.outcome # applied.routes
    /\ \E r \in DOMAIN applied.routes : Len(applied.routes[r]) > 3

(* The vehicle that built the route the greedy phase stored at index i: the
   vehicle of the i-th run that produced a route. *)
Builder(i) ==
    LET runs == GreedyRuns(1, AllCustomers)
        built == SelectSeq(runs, LAMBDA run : run.route # <<>>)
    IN built[i].vehicle

(* C30: the route the heuristic stores at index i was built by vehicle i
   and is feasible for it. *)
C30_RouteIndexIsVehicle ==
    applied.op = "heuristic" =>
        LET g == GreedyPhase(1, AllCustomers, <<>>)
        IN \A i \in DOMAIN g.routes :
              /\ Builder(i) = i
              /\ IsFeasibleRoute(g.routes[i], vehicles[i])

(* C27: when the loop ends without a recorded best assignment, solve
   returns the formatted result of one route holding customers
   1..min(N, 10) on vehicle 0.  Stated for fleets of at least one vehicle. *)
C27_BasicSolutionReturned ==
    (pc = "returned" /\ best_solution = None /\ customers # <<>>
        /\ Len(vehicles) >= 1) =>
        LET first_ten == [k \in 1..Min2(NumCustomers, FirstTen - 1) |-> k]
        IN /\ Len(result.routes) = 1
           /\ result.routes[1].vehicle_id = 0
           /\ result.routes[1].route = <<0>> \o first_ten \o <<0>>

====
